---- MODULE Spec2Model ----
(***************************************************************************)
(* Model of the hybrid Peltier / humidity controller of                   *)
(* src/arduinoeSupPro.ino: the state setup() leaves and one action per    *)
(* loop() invocation.                                                      *)
(*                                                                         *)
(* Encodings.                                                              *)
(*  - millis() is an unsigned long counting milliseconds modulo 2^32.     *)
(*    Clock values are kept in units of TimeUnit ms, so the modulus is    *)
(*    2^32 / TimeUnit and every reading is a multiple of TimeUnit ms.     *)
(*  - A float that holds a number of tenths (setpoints, sensor readings)  *)
(*    is kept as that integer number of tenths: 25.0 is 250.  Every       *)
(*    setpoint the program can hold is (float)k / 10.0 for an integer k,  *)
(*    and k is what the model stores.  Sensor readings are multiples of   *)
(*    0.5, which are exact in binary floating point.                      *)
(*  - The digital inputs and millis() are sampled once per loop().        *)
(***************************************************************************)
EXTENDS Integers, Naturals, Sequences, FiniteSets, TLC

\* ---------------------------------------------------------------- constants
LOW == 0
HIGH == 1
RELE_LIGADO == LOW
RELE_DESLIGADO == HIGH

\* isnan() is true of exactly this reading
NaN == -1

TimeUnit == 8
ULongMod == 536870912
tempoSeguranca == 60000 \div TimeUnit
debounceDelay == 200 \div TimeUnit
histereseTemp == 10
histereseHum == 30
limiarMovimento == 15

\* ------------------------------------------------------------------- bounds
\* last clock value (in TimeUnit) at which a loop() may still start
MaxClock == 7500

\* ------------------------------------------------------------------- state
VARIABLES
  pc,                    \* "setup" once setup() has returned, "loop" once a loop() has run
  now,                   \* millis() of the last setup()/loop()
  sistemaAtivo, emergenciaVirtual, ultimoEstadoBtnStart, lastDebounceTime,
  setpointTemp, setpointHum,
  ultimoTempoDesligado, ultimoModo,
  ultimoEstadoChave, modoSincronia, ultimaLeituraPot,
  tab_reg,
  pinA, pinB, pinU,      \* output pin levels of the three relays
  in,                    \* what the last loop() sampled
  ev,                    \* what the last loop() did
  desligadoEm,           \* clock of the last change of mode from 1/2 to 0, -1 if none
  aceitoEm               \* clock of the last accepted start-button edge, -1 if none

vars == <<pc, now, sistemaAtivo, emergenciaVirtual, ultimoEstadoBtnStart,
          lastDebounceTime, setpointTemp, setpointHum, ultimoTempoDesligado,
          ultimoModo, ultimoEstadoChave, modoSincronia, ultimaLeituraPot,
          tab_reg, pinA, pinB, pinU, in, ev, desligadoEm, aceitoEm>>

\* a subtraction that stops at 0 instead of wrapping
SubULSaturada(a, b) == IF a >= b THEN a - b ELSE 0

\* ------------------------------------------------------------ arithmetic
\* a - b on unsigned long
SubUL(a, b) == (a - b + ULongMod) % ULongMod

abs(x) == IF x > 0 THEN x ELSE -x

\* Arduino map(): long arithmetic, C division
map(x, in_min, in_max, out_min, out_max) ==
  ((x - in_min) * (out_max - out_min)) \div (in_max - in_min) + out_min

\* ---- binary32 arithmetic on numbers of tenths (float and double are both
\* ---- binary32 on the AVR this sketch targets)
\* round to nearest, ties to even, of n / 2^sh
RoundShift(n, sh) ==
  LET q == n \div 2^sh
      r == n % 2^sh
      h == 2^sh \div 2
  IN  IF sh = 0 THEN n
      ELSE IF r > h \/ (r = h /\ q % 2 = 1) THEN q + 1 ELSE q

\* (float)k / 10.0 is FloatMant(k) * 2^(FloatExp(k) - 27), 0 <= k <= 65535
FloatExp(k) ==
  IF k = 0 THEN 0
  ELSE CHOOSE j \in 0..16 : 10 * 2^j <= 16 * k /\ 16 * k < 10 * 2^(j + 1)

FloatMant(k) ==
  LET n == k * 2^(27 - FloatExp(k))
      q == n \div 10
      r == n % 10
  IN  IF r > 5 \/ (r = 5 /\ q % 2 = 1) THEN q + 1 ELSE q

\* abs((float)a/10.0 - (float)b/10.0) > 0.1, the literal 0.1 being
\* 13421773 * 2^-27.  Two tenths or more apart the difference is above
\* 0.19; one tenth apart the subtraction is exact and the roundings of the
\* two quotients decide.
DiffAbove01(a, b) ==
  LET hi == IF a > b THEN a ELSE b
      lo == IF a > b THEN b ELSE a
      d  == FloatMant(hi) * 2^(FloatExp(hi) - FloatExp(lo)) - FloatMant(lo)
  IN  IF hi = lo THEN FALSE
      ELSE IF hi - lo >= 2 THEN TRUE
      ELSE d * 2^FloatExp(lo) > 13421773

\* abs(m - (float)k/10.0) < 2.0 for an integer m: exact on the tenths
DiffBelow2(m, k) == abs(10 * m - k) < 20

\* (uint16_t)(x * 10) for x = (float)k/10.0: the product is rounded to 24
\* bits, then truncated
FloatToReg(k) ==
  LET p  == FloatMant(k) * 10
      sh == IF p >= 2^27 THEN 4 ELSE IF p >= 2^26 THEN 3
            ELSE IF p >= 2^25 THEN 2 ELSE IF p >= 2^24 THEN 1 ELSE 0
      r  == RoundShift(p, sh) * 2^sh
  IN  r \div 2^(27 - FloatExp(k))

\* FloatToReg on the setpoints the potentiometer can produce, computed once
RegTable == [k \in 0..1000 |-> FloatToReg(k)]

ToReg(k) == IF k \in DOMAIN RegTable THEN RegTable[k] ELSE FloatToReg(k)

\* ------------------------------------------------- the controller's record
\* The globals and the output pins, as one record the helpers transform.
Ctl ==
  [sistemaAtivo |-> sistemaAtivo, emergenciaVirtual |-> emergenciaVirtual,
   ultimoEstadoBtnStart |-> ultimoEstadoBtnStart,
   lastDebounceTime |-> lastDebounceTime,
   setpointTemp |-> setpointTemp, setpointHum |-> setpointHum,
   ultimoTempoDesligado |-> ultimoTempoDesligado, ultimoModo |-> ultimoModo,
   ultimoEstadoChave |-> ultimoEstadoChave, modoSincronia |-> modoSincronia,
   ultimaLeituraPot |-> ultimaLeituraPot, tab_reg |-> tab_reg,
   pinA |-> pinA, pinB |-> pinB, pinU |-> pinU]

\* a relay is energized: the Peltier relays on RELE_LIGADO, the humidity relay
\* on HIGH (setup() and pararTudo() switch it off with LOW)
releA == pinA = RELE_LIGADO
releB == pinB = RELE_LIGADO
releU == pinU = HIGH


\* pararTudo() without the write of line 283
pararTudoSemReleB(s, agora) ==
  [s EXCEPT !.ultimoTempoDesligado = IF s.ultimoModo # 0 THEN agora ELSE @,
            !.ultimoModo = 0,
            !.pinA = RELE_DESLIGADO,
            !.pinU = LOW]

\* pararTudo() recording the clock on every call
pararTudoSempreMarca(s, agora) ==
  [s EXCEPT !.ultimoTempoDesligado = agora,
            !.ultimoModo = 0,
            !.pinA = RELE_DESLIGADO,
            !.pinB = RELE_DESLIGADO,
            !.pinU = LOW]

\* pararTudo() that leaves the humidity relay as it is
pararTudoSemUmidade(s, agora) ==
  [s EXCEPT !.ultimoTempoDesligado = IF s.ultimoModo # 0 THEN agora ELSE @,
            !.ultimoModo = 0,
            !.pinA = RELE_DESLIGADO,
            !.pinB = RELE_DESLIGADO]

\* pararTudo() without the bookkeeping of lines 277-280
pararTudoSemMarcar(s, agora) ==
  [s EXCEPT !.ultimoModo = 0, !.pinA = RELE_DESLIGADO,
            !.pinB = RELE_DESLIGADO, !.pinU = LOW]

\* ------------------------------------------------------------ the helpers
pararTudo(s, agora) ==
  [s EXCEPT !.ultimoTempoDesligado = IF s.ultimoModo # 0 THEN agora ELSE @,
            !.ultimoModo = 0,
            !.pinA = RELE_DESLIGADO,
            !.pinB = RELE_DESLIGADO,
            !.pinU = LOW]

\* the hysteresis tests with >= and <= in place of > and <
acaoDesejadaComIgual(s, temp) ==
  IF temp >= s.setpointTemp + histereseTemp THEN 1
  ELSE IF temp <= s.setpointTemp - histereseTemp THEN 2
  ELSE 0

acaoDesejada(s, temp) ==
  IF temp > s.setpointTemp + histereseTemp THEN 1
  ELSE IF temp < s.setpointTemp - histereseTemp THEN 2
  ELSE 0


\* controlarTemperatura() with a dwell one clock unit short
controlarTemperaturaEsperaCurta(s, temp, agora) ==
  LET a == acaoDesejada(s, temp)
  IN  IF a = s.ultimoModo THEN s
      ELSE IF a # 0 /\ SubUL(agora, s.ultimoTempoDesligado) < tempoSeguranca - 1
        THEN s
      ELSE IF a = 1
        THEN [s EXCEPT !.pinA = RELE_DESLIGADO, !.pinB = RELE_LIGADO, !.ultimoModo = 1]
      ELSE IF a = 2
        THEN [s EXCEPT !.pinA = RELE_LIGADO, !.pinB = RELE_DESLIGADO, !.ultimoModo = 2]
      ELSE pararTudo(s, agora)

\* controlarTemperatura() restarting the dwell on every refused request
controlarTemperaturaReiniciaEspera(s, temp, agora) ==
  LET a == acaoDesejada(s, temp)
  IN  IF a = s.ultimoModo THEN s
      ELSE IF a # 0 /\ SubUL(agora, s.ultimoTempoDesligado) < tempoSeguranca
        THEN [s EXCEPT !.ultimoTempoDesligado = agora]
      ELSE IF a = 1
        THEN [s EXCEPT !.pinA = RELE_DESLIGADO, !.pinB = RELE_LIGADO, !.ultimoModo = 1]
      ELSE IF a = 2
        THEN [s EXCEPT !.pinA = RELE_LIGADO, !.pinB = RELE_DESLIGADO, !.ultimoModo = 2]
      ELSE pararTudo(s, agora)

\* controlarTemperatura() without the dwell test of line 253
controlarTemperaturaSemEspera(s, temp, agora) ==
  LET a == acaoDesejada(s, temp)
  IN  IF a = s.ultimoModo THEN s
      ELSE IF a = 1
        THEN [s EXCEPT !.pinA = RELE_DESLIGADO, !.pinB = RELE_LIGADO, !.ultimoModo = 1]
      ELSE IF a = 2
        THEN [s EXCEPT !.pinA = RELE_LIGADO, !.pinB = RELE_DESLIGADO, !.ultimoModo = 2]
      ELSE pararTudo(s, agora)

\* controlarTemperatura() that energizes the wanted relay without switching the
\* other one off first
controlarTemperaturaSemDesligar(s, temp, agora) ==
  LET a == acaoDesejada(s, temp) IN
  IF a = s.ultimoModo THEN s
  ELSE IF a # 0 /\ SubUL(agora, s.ultimoTempoDesligado) < tempoSeguranca THEN s
  ELSE IF a = 1 THEN [s EXCEPT !.pinB = RELE_LIGADO, !.ultimoModo = 1]
  ELSE IF a = 2 THEN [s EXCEPT !.pinA = RELE_LIGADO, !.ultimoModo = 2]
  ELSE pararTudo(s, agora)

controlarTemperatura(s, temp, agora) ==
  LET a == acaoDesejada(s, temp)
  IN  IF a = s.ultimoModo THEN s
      ELSE IF a # 0 /\ SubUL(agora, s.ultimoTempoDesligado) < tempoSeguranca THEN s
      ELSE IF a = 1
        THEN [s EXCEPT !.pinA = RELE_DESLIGADO, !.pinB = RELE_LIGADO, !.ultimoModo = 1]
      ELSE IF a = 2
        THEN [s EXCEPT !.pinA = RELE_LIGADO, !.pinB = RELE_DESLIGADO, !.ultimoModo = 2]
      ELSE pararTudo(s, agora)

\* lines 255-267 and 282-283: the levels <<pin A, pin B>> after each
\* digitalWrite() that one call of controlarTemperatura() makes, in order
escritasTemperatura(s, temp, agora) ==
  LET a == acaoDesejada(s, temp)
  IN  IF a = s.ultimoModo THEN << >>
      ELSE IF a # 0 /\ SubUL(agora, s.ultimoTempoDesligado) < tempoSeguranca
        THEN << >>
      ELSE IF a = 1
        THEN << <<RELE_DESLIGADO, s.pinB>>, <<RELE_DESLIGADO, RELE_LIGADO>> >>
      ELSE IF a = 2
        THEN << <<RELE_LIGADO, s.pinB>>, <<RELE_LIGADO, RELE_DESLIGADO>> >>
      ELSE << <<RELE_DESLIGADO, s.pinB>>, <<RELE_DESLIGADO, RELE_DESLIGADO>> >>

\* a humidity control with a hold band: on above the setpoint, off below
\* setpoint - hysteresis, unchanged in between
controlarUmidadeComBanda(s, hum) ==
  IF ~s.sistemaAtivo THEN [s EXCEPT !.pinU = LOW]
  ELSE IF hum > s.setpointHum THEN [s EXCEPT !.pinU = HIGH]
  ELSE IF hum < s.setpointHum - histereseHum THEN [s EXCEPT !.pinU = LOW]
  ELSE s

controlarUmidade(s, hum) ==
  IF ~s.sistemaAtivo THEN [s EXCEPT !.pinU = LOW]
  ELSE IF hum > s.setpointHum - histereseHum THEN [s EXCEPT !.pinU = HIGH]
  ELSE IF hum < s.setpointHum THEN [s EXCEPT !.pinU = LOW]
  ELSE s

\* ------------------------------------------------------ the steps of loop()
isnan(x) == x = NaN

\* lines 90-93: the reading, with NaN replaced by 0.0
lerSensor(x) == IF isnan(x) THEN 0 ELSE x

\* lines 99-105
statusCode(s, emerg) ==
  IF emerg = LOW \/ s.emergenciaVirtual THEN 4
  ELSE IF s.sistemaAtivo THEN (IF s.ultimoModo = 0 THEN 3 ELSE s.ultimoModo)
  ELSE 0

\* the publication also writing the setpoints to registers 2 and 3, before
\* the exchange
publicarComAlvos(s, tempAtual, humAtual, emerg) ==
  [s EXCEPT !.tab_reg = [@ EXCEPT ![0] = ToReg(tempAtual), ![1] = ToReg(humAtual),
                                  ![2] = ToReg(s.setpointTemp),
                                  ![3] = ToReg(s.setpointHum),
                                  ![4] = statusCode(s, emerg)]]

\* lines 95-105: (uint16_t)(reading * 10) of a reading that is a number of tenths
publicar(s, tempAtual, humAtual, emerg) ==
  [s EXCEPT !.tab_reg = [@ EXCEPT ![0] = ToReg(tempAtual), ![1] = ToReg(humAtual),
                                  ![4] = statusCode(s, emerg)]]

\* line 108: the exchange with the master, which writes one register or none
NoReq == [slot |-> -1, val |-> 0]

modbusLoop(s, req) ==
  IF req.slot = -1 THEN s ELSE [s EXCEPT !.tab_reg[req.slot] = req.val]

\* the command switch with the run command also resetting the virtual emergency
processarComandoRunLimpa(s, emerg, agora) ==
  LET cmd  == s.tab_reg[5]
      zero == [s EXCEPT !.tab_reg[5] = 0]
  IN  CASE cmd = 1 ->
             IF emerg = HIGH
             THEN [zero EXCEPT !.sistemaAtivo = TRUE, !.emergenciaVirtual = FALSE]
             ELSE zero
        [] cmd = 2 ->
             [pararTudo([s EXCEPT !.sistemaAtivo = FALSE], agora)
                EXCEPT !.tab_reg[5] = 0]
        [] cmd = 3 -> [zero EXCEPT !.emergenciaVirtual = TRUE]
        [] cmd = 4 -> [zero EXCEPT !.emergenciaVirtual = FALSE]
        [] OTHER -> s

\* the command switch with case 2 leaving sistemaAtivo as it is
processarComandoSemStop(s, emerg, agora) ==
  LET cmd  == s.tab_reg[5]
      zero == [s EXCEPT !.tab_reg[5] = 0]
  IN  CASE cmd = 1 ->
             IF emerg = HIGH /\ ~s.emergenciaVirtual
             THEN [zero EXCEPT !.sistemaAtivo = TRUE] ELSE zero
        [] cmd = 2 -> [pararTudo(s, agora) EXCEPT !.tab_reg[5] = 0]
        [] cmd = 3 -> [zero EXCEPT !.emergenciaVirtual = TRUE]
        [] cmd = 4 -> [zero EXCEPT !.emergenciaVirtual = FALSE]
        [] OTHER -> s

\* the command switch with case 1 not looking at the emergency
processarComandoSemTrava(s, emerg, agora) ==
  LET cmd  == s.tab_reg[5]
      zero == [s EXCEPT !.tab_reg[5] = 0]
  IN  CASE cmd = 1 -> [zero EXCEPT !.sistemaAtivo = TRUE]
        [] cmd = 2 ->
             [pararTudo([s EXCEPT !.sistemaAtivo = FALSE], agora)
                EXCEPT !.tab_reg[5] = 0]
        [] cmd = 3 -> [zero EXCEPT !.emergenciaVirtual = TRUE]
        [] cmd = 4 -> [zero EXCEPT !.emergenciaVirtual = FALSE]
        [] OTHER -> s

\* the command switch placed after the emergency check: skipped while locked
processarComandoSoDestravado(s, emerg, agora) ==
  LET cmd  == s.tab_reg[5]
      zero == [s EXCEPT !.tab_reg[5] = 0]
  IN  IF emerg = LOW \/ s.emergenciaVirtual THEN s
      ELSE CASE cmd = 1 -> [zero EXCEPT !.sistemaAtivo = TRUE]
             [] cmd = 2 ->
                  [pararTudo([s EXCEPT !.sistemaAtivo = FALSE], agora)
                     EXCEPT !.tab_reg[5] = 0]
             [] cmd = 3 -> [zero EXCEPT !.emergenciaVirtual = TRUE]
             [] cmd = 4 -> [zero EXCEPT !.emergenciaVirtual = FALSE]
             [] OTHER -> s

\* the command switch with a default branch that stops, for values above 4
processarComandoOutroDesliga(s, emerg, agora) ==
  LET cmd  == s.tab_reg[5]
      zero == [s EXCEPT !.tab_reg[5] = 0]
  IN  CASE cmd = 1 ->
             IF emerg = HIGH /\ ~s.emergenciaVirtual
             THEN [zero EXCEPT !.sistemaAtivo = TRUE] ELSE zero
        [] cmd = 2 \/ cmd > 4 ->
             [pararTudo([s EXCEPT !.sistemaAtivo = FALSE], agora)
                EXCEPT !.tab_reg[5] = 0]
        [] cmd = 3 -> [zero EXCEPT !.emergenciaVirtual = TRUE]
        [] cmd = 4 -> [zero EXCEPT !.emergenciaVirtual = FALSE]
        [] OTHER -> s

\* lines 110-135
processarComando(s, emerg, agora) ==
  LET cmd  == s.tab_reg[5]
      zero == [s EXCEPT !.tab_reg[5] = 0]
  IN  CASE cmd = 1 ->
             IF emerg = HIGH /\ ~s.emergenciaVirtual
             THEN [zero EXCEPT !.sistemaAtivo = TRUE] ELSE zero
        [] cmd = 2 ->
             [pararTudo([s EXCEPT !.sistemaAtivo = FALSE], agora)
                EXCEPT !.tab_reg[5] = 0]
        [] cmd = 3 -> [zero EXCEPT !.emergenciaVirtual = TRUE]
        [] cmd = 4 -> [zero EXCEPT !.emergenciaVirtual = FALSE]
        [] OTHER -> s

\* the lock test looking at the switch only
emEmergenciaSoFisica(s, emerg) == emerg = LOW

\* lines 138-141
emEmergencia(s, emerg) == emerg = LOW \/ s.emergenciaVirtual


\* the emergency branch without pararTudo()
travarSemParar(s, agora) == [s EXCEPT !.sistemaAtivo = FALSE]

\* the locked branch also writing the setpoints to registers 2 and 3
travarReafirma(s, agora) ==
  pararTudo([s EXCEPT !.sistemaAtivo = FALSE,
                      !.tab_reg[2] = ToReg(s.setpointTemp),
                      !.tab_reg[3] = ToReg(s.setpointHum)], agora)

\* the locked branch also dropping modoSincronia
travarLimpaSincronia(s, agora) ==
  pararTudo([s EXCEPT !.sistemaAtivo = FALSE, !.modoSincronia = FALSE], agora)

\* lines 143-144
travar(s, agora) == pararTudo([s EXCEPT !.sistemaAtivo = FALSE], agora)


\* the debounce test with >= in place of >
bordaAceitaMaiorIgual(s, leituraBtn, agora) ==
  /\ leituraBtn = LOW
  /\ s.ultimoEstadoBtnStart = HIGH
  /\ SubUL(agora, s.lastDebounceTime) >= debounceDelay

\* line 171
bordaAceita(s, leituraBtn, agora) ==
  /\ leituraBtn = LOW
  /\ s.ultimoEstadoBtnStart = HIGH
  /\ SubUL(agora, s.lastDebounceTime) > debounceDelay

\* the button branch without the assignment of line 173
botaoStartSemCarimbo(s, leituraBtn, agora) ==
  LET t == [s EXCEPT !.sistemaAtivo = ~@]
      u == IF ~bordaAceita(s, leituraBtn, agora) THEN s
           ELSE IF ~t.sistemaAtivo THEN pararTudo(t, agora) ELSE t
  IN  [u EXCEPT !.ultimoEstadoBtnStart = leituraBtn]

\* lines 170-177
botaoStart(s, leituraBtn, agora) ==
  LET t == [s EXCEPT !.sistemaAtivo = ~@, !.lastDebounceTime = agora]
      u == IF ~bordaAceita(s, leituraBtn, agora) THEN s
           ELSE IF ~t.sistemaAtivo THEN pararTudo(t, agora) ELSE t
  IN  [u EXCEPT !.ultimoEstadoBtnStart = leituraBtn]

\* the remote check looking at the temperature target only
mudancaScadaSoTemp(s) ==
  IF DiffAbove01(s.tab_reg[2], s.setpointTemp)
  THEN [s EXCEPT !.setpointTemp = s.tab_reg[2], !.modoSincronia = TRUE]
  ELSE s

\* lines 186-197
mudancaScada(s) ==
  LET scadaTemp == s.tab_reg[2]
      scadaHum  == s.tab_reg[3]
      a == IF DiffAbove01(scadaTemp, s.setpointTemp)
           THEN [s EXCEPT !.setpointTemp = scadaTemp, !.modoSincronia = TRUE]
           ELSE s
  IN  IF DiffAbove01(scadaHum, a.setpointHum)
      THEN [a EXCEPT !.setpointHum = scadaHum, !.modoSincronia = TRUE]
      ELSE a

\* the selector change recorded without asking for synchronisation
mudancaChaveSemSincronia(s, leituraChave) ==
  IF leituraChave # s.ultimoEstadoChave
  THEN [s EXCEPT !.ultimoEstadoChave = leituraChave]
  ELSE s

\* lines 204-208
mudancaChave(s, leituraChave) ==
  IF leituraChave # s.ultimoEstadoChave
  THEN [s EXCEPT !.modoSincronia = TRUE, !.ultimoEstadoChave = leituraChave]
  ELSE s

\* the movement test always passing
potMoveuSempre(s, valorPot) == TRUE

\* line 210
potMoveu(s, valorPot) == abs(valorPot - s.ultimaLeituraPot) > limiarMovimento

\* the mapping with the humidity range on both channels
valorPotMapeadoSemCanal(leituraChave, valorPot) == map(valorPot, 0, 1023, 0, 100)

\* lines 213-214
valorPotMapeado(leituraChave, valorPot) ==
  IF leituraChave = HIGH THEN map(valorPot, 0, 1023, 0, 70)
  ELSE map(valorPot, 0, 1023, 0, 100)

\* the potentiometer branch taking the potentiometer value in the loop() that
\* clears modoSincronia
mudancaPotSaltaNaCaptura(s, leituraChave, valorPot) ==
  LET ajustandoTemp == leituraChave = HIGH
      mapeado   == valorPotMapeado(leituraChave, valorPot)
      valorAlvo == IF ajustandoTemp THEN s.setpointTemp ELSE s.setpointHum
      lido      == [s EXCEPT !.ultimaLeituraPot = valorPot]
      escrito   == IF ajustandoTemp
                   THEN [lido EXCEPT !.setpointTemp = 10 * mapeado,
                                     !.tab_reg[2] = ToReg(10 * mapeado)]
                   ELSE [lido EXCEPT !.setpointHum = 10 * mapeado,
                                     !.tab_reg[3] = ToReg(10 * mapeado)]
  IN  IF potMoveu(s, valorPot)
      THEN IF s.modoSincronia
           THEN IF DiffBelow2(mapeado, valorAlvo)
                THEN [escrito EXCEPT !.modoSincronia = FALSE] ELSE lido
           ELSE escrito
      ELSE [s EXCEPT !.tab_reg[2] = ToReg(s.setpointTemp),
                     !.tab_reg[3] = ToReg(s.setpointHum)]

\* the potentiometer branch leaving the registers alone when the
\* potentiometer did not move
mudancaPotSemReafirmar(s, leituraChave, valorPot) ==
  LET ajustandoTemp == leituraChave = HIGH
      mapeado   == valorPotMapeado(leituraChave, valorPot)
      valorAlvo == IF ajustandoTemp THEN s.setpointTemp ELSE s.setpointHum
      lido      == [s EXCEPT !.ultimaLeituraPot = valorPot]
  IN  IF potMoveu(s, valorPot)
      THEN IF s.modoSincronia
           THEN IF DiffBelow2(mapeado, valorAlvo)
                THEN [lido EXCEPT !.modoSincronia = FALSE] ELSE lido
           ELSE IF ajustandoTemp
                THEN [lido EXCEPT !.setpointTemp = 10 * mapeado,
                                  !.tab_reg[2] = ToReg(10 * mapeado)]
                ELSE [lido EXCEPT !.setpointHum = 10 * mapeado,
                                  !.tab_reg[3] = ToReg(10 * mapeado)]
      ELSE s

\* the potentiometer branch writing the setpoint without mirroring it to the
\* register
mudancaPotSemEspelho(s, leituraChave, valorPot) ==
  LET ajustandoTemp == leituraChave = HIGH
      mapeado   == valorPotMapeado(leituraChave, valorPot)
      valorAlvo == IF ajustandoTemp THEN s.setpointTemp ELSE s.setpointHum
      lido      == [s EXCEPT !.ultimaLeituraPot = valorPot]
  IN  IF potMoveu(s, valorPot)
      THEN IF s.modoSincronia
           THEN IF DiffBelow2(mapeado, valorAlvo)
                THEN [lido EXCEPT !.modoSincronia = FALSE] ELSE lido
           ELSE IF ajustandoTemp
                THEN [lido EXCEPT !.setpointTemp = 10 * mapeado]
                ELSE [lido EXCEPT !.setpointHum = 10 * mapeado]
      ELSE [s EXCEPT !.tab_reg[2] = ToReg(s.setpointTemp),
                     !.tab_reg[3] = ToReg(s.setpointHum)]

\* lines 210-231
mudancaPot(s, leituraChave, valorPot) ==
  LET ajustandoTemp == leituraChave = HIGH
      mapeado   == valorPotMapeado(leituraChave, valorPot)
      valorAlvo == IF ajustandoTemp THEN s.setpointTemp ELSE s.setpointHum
      lido      == [s EXCEPT !.ultimaLeituraPot = valorPot]
  IN  IF potMoveu(s, valorPot)
      THEN IF s.modoSincronia
           THEN IF DiffBelow2(mapeado, valorAlvo)
                THEN [lido EXCEPT !.modoSincronia = FALSE] ELSE lido
           ELSE IF ajustandoTemp
                THEN [lido EXCEPT !.setpointTemp = 10 * mapeado,
                                  !.tab_reg[2] = ToReg(10 * mapeado)]
                ELSE [lido EXCEPT !.setpointHum = 10 * mapeado,
                                  !.tab_reg[3] = ToReg(10 * mapeado)]
      ELSE [s EXCEPT !.tab_reg[2] = ToReg(s.setpointTemp),
                     !.tab_reg[3] = ToReg(s.setpointHum)]

\* lines 233-239
atuar(s, tempAtual, humAtual, agora) ==
  IF s.sistemaAtivo
  THEN controlarUmidade(controlarTemperatura(s, tempAtual, agora), humAtual)
  ELSE pararTudo(s, agora)

NoEvents ==
  [locked |-> FALSE, destravou |-> FALSE, ligou |-> FALSE, borda |-> FALSE, toggled |-> FALSE,
   mudou |-> FALSE, moveu |-> FALSE, pegou |-> FALSE, desligou |-> FALSE,
   bloqueou |-> FALSE, cumpriu |-> FALSE, ambos |-> FALSE, tomou |-> FALSE]

\* ------------------------------------------------------------------ setup()
\* lines 32-57 and 59-85: the globals' initialisers and what setup() assigns
\* at clock `boot` with the selector at `chave` and the potentiometer at `pot`
AfterSetup(boot, chave, pot) ==
  /\ pc = "setup"
  /\ now = boot
  /\ sistemaAtivo = FALSE
  /\ emergenciaVirtual = FALSE
  /\ ultimoEstadoBtnStart = HIGH
  /\ lastDebounceTime = 0
  /\ setpointTemp = 250
  /\ setpointHum = 600
  /\ ultimoTempoDesligado = SubUL(boot, tempoSeguranca)
  /\ ultimoModo = 0
  /\ ultimoEstadoChave = chave
  /\ modoSincronia = FALSE
  /\ ultimaLeituraPot = pot
  /\ tab_reg = [r \in 0..9 |-> IF r = 2 THEN ToReg(250)
                               ELSE IF r = 3 THEN ToReg(600) ELSE 0]
  /\ pinA = RELE_DESLIGADO
  /\ pinB = RELE_DESLIGADO
  /\ pinU = LOW
  /\ in = [temp |-> NaN, hum |-> NaN, emerg |-> HIGH, btn |-> HIGH,
           chave |-> chave, pot |-> pot, req |-> NoReq]
  /\ ev = NoEvents
  /\ desligadoEm = -1
  /\ aceitoEm = -1

\* ------------------------------------------------------------------- loop()
\* One loop() (lines 87-242) that starts d clock units after the previous one
\* and samples i; s1..s7 are the records it goes through and f the one it leaves.
\* ev records whether the loop() was locked, was the first not locked after a
\* locked one, set sistemaAtivo on a command, saw
\* a falling edge of the start button, flipped sistemaAtivo on it, found the
\* selector changed, found the
\* potentiometer moved, cleared
\* modoSincronia on a potentiometer reading, took the mode from 1/2 to 0, left
\* a wanted cooling or heating undone, did it right after such a loop(), and
\* had both Peltier pins at RELE_LIGADO after one of its relay writes, and
\* took a setpoint from its register.
Loop(d, i) ==
  \E agora \in {(now + d) % ULongMod}, s0 \in {Ctl},
     tempAtual \in {lerSensor(i.temp)}, humAtual \in {lerSensor(i.hum)} :
  \E s1 \in {publicar(s0, tempAtual, humAtual, i.emerg)} :       \* 95-105
  \E s2 \in {modbusLoop(s1, i.req)} :                            \* 108
  \E s3 \in {processarComando(s2, i.emerg, agora)} :             \* 110-135
  \E s4 \in {botaoStart(s3, i.btn, agora)} :                     \* 170-177
  \E s5 \in {mudancaScada(s4)} :                                 \* 186-197
  \E s6 \in {mudancaChave(s5, i.chave)} :                        \* 200-208
  \E s7 \in {mudancaPot(s6, i.chave, i.pot)} :                   \* 210-231
  \E f \in {IF emEmergencia(s3, i.emerg) THEN travar(s3, agora)  \* 141-163
             ELSE IF isnan(tempAtual) \/ isnan(humAtual)
               THEN pararTudo(s4, agora)                         \* 179-183
             ELSE atuar(s7, tempAtual, humAtual, agora)} :       \* 233-239
  \E e \in {[locked   |-> emEmergencia(s3, i.emerg),
              destravou |-> ev.locked /\ ~emEmergencia(s3, i.emerg),
              ligou    |-> s3.sistemaAtivo /\ ~s2.sistemaAtivo,
              borda    |-> ~emEmergencia(s3, i.emerg) /\ i.btn = LOW
                           /\ s3.ultimoEstadoBtnStart = HIGH,
              toggled  |-> ~emEmergencia(s3, i.emerg)
                           /\ s4.sistemaAtivo # s3.sistemaAtivo,
              mudou    |-> ~emEmergencia(s3, i.emerg)
                           /\ i.chave # s5.ultimoEstadoChave,
              moveu    |-> ~emEmergencia(s3, i.emerg) /\ potMoveu(s6, i.pot),
              pegou    |-> ~emEmergencia(s3, i.emerg)
                           /\ s6.modoSincronia /\ ~s7.modoSincronia,
              desligou |-> \/ s0.ultimoModo # 0 /\ s3.ultimoModo = 0
                           \/ ~emEmergencia(s3, i.emerg)
                              /\ s3.ultimoModo # 0 /\ s4.ultimoModo = 0
                           \/ s0.ultimoModo # 0 /\ f.ultimoModo = 0,
              bloqueou |-> /\ ~emEmergencia(s3, i.emerg) /\ f.sistemaAtivo
                           /\ acaoDesejada(s7, tempAtual) # 0
                           /\ f.ultimoModo # acaoDesejada(s7, tempAtual),
              cumpriu  |-> /\ ev.bloqueou
                           /\ ~emEmergencia(s3, i.emerg) /\ f.sistemaAtivo
                           /\ acaoDesejada(s7, tempAtual) # 0
                           /\ f.ultimoModo = acaoDesejada(s7, tempAtual),
              ambos    |-> /\ ~emEmergencia(s3, i.emerg) /\ s7.sistemaAtivo
                           /\ \E k \in DOMAIN escritasTemperatura(s7, tempAtual, agora) :
                                escritasTemperatura(s7, tempAtual, agora)[k]
                                  = <<RELE_LIGADO, RELE_LIGADO>>,
              tomou    |-> /\ ~emEmergencia(s3, i.emerg)
                           /\ \/ s5.setpointTemp # s4.setpointTemp
                              \/ s5.setpointHum # s4.setpointHum]} :
      /\ pc' = "loop"
      /\ now' = agora
      /\ sistemaAtivo' = f.sistemaAtivo
      /\ emergenciaVirtual' = f.emergenciaVirtual
      /\ ultimoEstadoBtnStart' = f.ultimoEstadoBtnStart
      /\ lastDebounceTime' = f.lastDebounceTime
      /\ setpointTemp' = f.setpointTemp
      /\ setpointHum' = f.setpointHum
      /\ ultimoTempoDesligado' = f.ultimoTempoDesligado
      /\ ultimoModo' = f.ultimoModo
      /\ ultimoEstadoChave' = f.ultimoEstadoChave
      /\ modoSincronia' = f.modoSincronia
      /\ ultimaLeituraPot' = f.ultimaLeituraPot
      /\ tab_reg' = f.tab_reg
      /\ pinA' = f.pinA
      /\ pinB' = f.pinB
      /\ pinU' = f.pinU
      /\ in' = i
      /\ ev' = e
      /\ desligadoEm' = IF e.desligou THEN agora ELSE desligadoEm
      /\ aceitoEm' = IF e.toggled THEN agora ELSE aceitoEm

\* the records of inputs over given alphabets
Inputs(Sens, Emergs, Btns, Chaves, Pots, Rqs) ==
  { [temp |-> sn[1], hum |-> sn[2], emerg |-> em, btn |-> bt,
     chave |-> ch, pot |-> pt, req |-> rq] :
      sn \in Sens, em \in Emergs, bt \in Btns,
      ch \in Chaves, pt \in Pots, rq \in Rqs }

Cmd(c) == [slot |-> 5, val |-> c]

\* ------------------------------------------------ the main specification
\* Interlock, commands, start button and actuation: the selector and the
\* potentiometer are left where setup() found them.
Sensors == {<<NaN, 650>>, <<275, NaN>>, <<275, 650>>, <<225, 550>>}
Reqs == {NoReq, Cmd(1), Cmd(2), Cmd(3), Cmd(4), Cmd(7)}
Deltas == {0, tempoSeguranca}
MainInputs == Inputs(Sensors, {LOW, HIGH}, {LOW, HIGH}, {HIGH}, {512}, Reqs)

Init == AfterSetup(0, HIGH, 512)

Next ==
  \E d \in Deltas :
    /\ now + d <= MaxClock
    /\ \E i \in MainInputs : Loop(d, i)

Spec == Init /\ [][Next]_vars

\* --------------------------------------------- the dwell specification
\* The clock around the 60 s dwell, with a temperature that demands cooling
\* or nothing.
DwellDeltas == {0, tempoSeguranca - 1, tempoSeguranca}
DwellInputs ==
  Inputs({<<275, 650>>, <<250, 650>>}, {LOW, HIGH}, {LOW, HIGH}, {HIGH}, {512},
         {NoReq, Cmd(1), Cmd(2)})

NextDwell ==
  \E d \in DwellDeltas :
    /\ now + d <= MaxClock
    /\ \E i \in DwellInputs : Loop(d, i)

SpecDwell == Init /\ [][NextDwell]_vars

\* ------------------------------------------ the debounce specification
\* The clock around the 200 ms debounce window.
MaxClockDebounce == 78
DebounceDeltas == {12, 13, debounceDelay + 1}
DebounceInputs ==
  Inputs({<<275, 650>>}, {LOW, HIGH}, {LOW, HIGH}, {HIGH}, {512},
         {NoReq, Cmd(1), Cmd(2)})

NextDebounce ==
  \E d \in DebounceDeltas :
    /\ now + d <= MaxClockDebounce
    /\ \E i \in DebounceInputs : Loop(d, i)

SpecDebounce == Init /\ [][NextDebounce]_vars

\* -------------------------------------------- the soft pick-up specification
\* The master writes the two targets while the potentiometer is turned and the
\* selector switched; the system stays off.
MaxClockPickup == 5
Write(slot, val) == [slot |-> slot, val |-> val]
PickupPots == {380, 412, 425, 440}
PickupInputs ==
  Inputs({<<250, 600>>}, {LOW, HIGH}, {HIGH}, {LOW, HIGH}, PickupPots,
         {NoReq, Write(2, 300), Write(3, 410)})

InitPickup == AfterSetup(0, HIGH, 380)

NextPickup ==
  /\ now + 1 <= MaxClockPickup
  /\ \E i \in PickupInputs : Loop(1, i)

SpecPickup == InitPickup /\ [][NextPickup]_vars

\* ------------------------------------------------ the humidity specification
\* Humidity readings on both sides of setpoint - hysteresis and of the
\* setpoint, with the master moving the humidity target.
MaxClockUmidade == 4
UmidadeInputs ==
  Inputs({<<250, 540>>, <<250, 545>>, <<250, 570>>, <<250, 575>>, <<250, 590>>,
          <<250, 600>>, <<250, 650>>},
         {LOW, HIGH}, {HIGH}, {HIGH}, {512},
         {NoReq, Cmd(1), Cmd(2), Write(3, 575)})

NextUmidade ==
  /\ now + 1 <= MaxClockUmidade
  /\ \E i \in UmidadeInputs : Loop(1, i)

SpecUmidade == Init /\ [][NextUmidade]_vars

\* ------------------------------------------------- the thermal specification
\* Temperatures on both sides of and on setpoint +- hysteresis, the clock
\* around the dwell, and the master moving the temperature target.
TermicoInputs ==
  Inputs({<<225, 500>>, <<240, 500>>, <<260, 500>>, <<275, 500>>},
         {LOW, HIGH}, {HIGH}, {HIGH}, {512},
         {NoReq, Cmd(1), Cmd(2), Write(2, 265)})

NextTermico ==
  \E d \in DwellDeltas :
    /\ now + d <= MaxClock
    /\ \E i \in TermicoInputs : Loop(d, i)

SpecTermico == Init /\ [][NextTermico]_vars

\* ------------------------------------------ targets one count from the setpoint
\* The master writes targets one count (0.1) apart: 25.1 is more than 0.1f
\* from 25.0 in binary32 and is taken, as 25.2 is over 25.1 and over 25.0;
\* 25.3 is not more than 0.1f from 25.2 and is not taken.
MaxClockContagem == 4
ContagemInputs ==
  Inputs({<<250, 600>>}, {LOW, HIGH}, {HIGH}, {LOW, HIGH}, {380, 412},
         {NoReq, Write(2, 251), Write(2, 252), Write(2, 253), Write(3, 602),
          Write(3, 603)})

NextContagem ==
  /\ now + 1 <= MaxClockContagem
  /\ \E i \in ContagemInputs : Loop(1, i)

SpecContagem == InitPickup /\ [][NextContagem]_vars

\* ------------------------------------------------ the locked-loop specification
\* Every operator input and a remote target while the emergency switch or the
\* virtual emergency locks the loop(); loops are more than a debounce window
\* apart.
MaxClockTrava == 104
TravaInputs ==
  Inputs({<<250, 600>>}, {LOW, HIGH}, {LOW, HIGH}, {LOW, HIGH}, {380, 412},
         {NoReq, Write(2, 300), Cmd(3), Cmd(4)})

NextTrava ==
  /\ now + debounceDelay + 1 <= MaxClockTrava
  /\ \E i \in TravaInputs : Loop(debounceDelay + 1, i)

SpecTrava == InitPickup /\ [][NextTrava]_vars

\* ------------------------------------------------ the clock specification
\* setup() at a clock below, at and above the dwell, and loops at instants
\* around the dwell and near the top of the unsigned long range, which the
\* clock does not pass.
BootClocks == {0, 1, tempoSeguranca - 1, tempoSeguranca, tempoSeguranca + 1}
Instantes ==
  BootClocks \cup {2 * tempoSeguranca, ULongMod - 2 * tempoSeguranca,
                   ULongMod - tempoSeguranca, ULongMod - 1}
RelogioInputs ==
  Inputs({<<275, 500>>, <<225, 500>>, <<250, 500>>}, {LOW, HIGH}, {HIGH}, {HIGH},
         {512}, {NoReq, Cmd(1), Cmd(2)})

InitRelogio == \E boot \in BootClocks : AfterSetup(boot, HIGH, 512)

NextRelogio ==
  \E t \in Instantes :
    /\ t >= now
    /\ \E i \in RelogioInputs : Loop(t - now, i)

SpecRelogio == InitRelogio /\ [][NextRelogio]_vars

\* ------------------------------------------ the potentiometer specification
\* The first loop() after setup(), with every reading analogRead() can
\* return, on either channel, with or without a remote target.
LeiturasPot == 0 .. 1023
PotInputs ==
  Inputs({<<250, 600>>}, {LOW, HIGH}, {HIGH}, {LOW, HIGH}, LeiturasPot,
         {NoReq, Write(2, 300), Write(3, 410)})

InitPot ==
  \E chave \in {LOW, HIGH}, pot \in {0, 512, 1023} : AfterSetup(0, chave, pot)

NextPot ==
  /\ pc = "setup"
  /\ \E i \in PotInputs : Loop(1, i)

SpecPot == InitPot /\ [][NextPot]_vars

\* ------------------------------------------------ the liveness specification
\* Up to clock VivoLivre any input arrives; at any time a loop() may run 20 or
\* 40 s after the previous one with the emergency switch and the button
\* released, no command and a temperature that wants cooling or heating.  The
\* Arduino core calls loop() forever, so such loops keep coming while the
\* clock of the run allows: VivoFim leaves room for a full dwell after the last
\* free input.
VivoLivre == 5000
VivoPasso == 2500
VivoFim == VivoLivre + tempoSeguranca + VivoPasso
VivoInputs ==
  Inputs({<<225, 500>>, <<250, 500>>, <<275, 500>>}, {LOW, HIGH}, {HIGH}, {HIGH},
         {512}, {NoReq, Cmd(1), Cmd(2)})
VivoMantidos ==
  Inputs({<<225, 500>>, <<275, 500>>}, {HIGH}, {HIGH}, {HIGH}, {512}, {NoReq})

VivoFase1 ==
  \E d \in {0, VivoPasso} :
    /\ now + d <= VivoLivre
    /\ \E i \in VivoInputs : Loop(d, i)

VivoFase2 ==
  \E d \in {VivoPasso, 2 * VivoPasso} :
    /\ now + d <= VivoFim
    /\ \E i \in VivoMantidos : Loop(d, i)

NextVivo == VivoFase1 \/ VivoFase2

SpecVivo == Init /\ [][NextVivo]_vars /\ WF_vars(VivoFase2)

\* ===================================================================== claims

\* C1 (interlock dominance): at the end of every loop() in which the physical
\* emergency input was asserted or the virtual emergency flag is set, the two
\* Peltier relays and the humidity relay are de-energized and sistemaAtivo is
\* false.
C1_InterlockDominance ==
  (pc = "loop" /\ (in.emerg = LOW \/ emergenciaVirtual))
    => (~releA /\ ~releB /\ ~releU /\ ~sistemaAtivo)

\* a loop() with the switch asserted that arrived with a run command while the
\* actuator was running and took it to off
C1_Witness ==
  /\ pc = "loop" /\ in.emerg = LOW /\ in.req = Cmd(1) /\ ev.desligou
  /\ ~releA /\ ~releB /\ ~releU /\ ~sistemaAtivo

\* C3 (no double-energize): at the end of every loop() the two Peltier relays
\* are not both energized.
C3_NoDoubleEnergize == ~(releA /\ releB)

\* heating after cooling was once stopped: relay A energized alone
C3_Witness ==
  pc = "loop" /\ ultimoModo = 2 /\ releA /\ ~releB /\ desligadoEm # -1

\* C2 (dwell): whenever the mode is cooling or heating at the end of a loop()
\* and the mode last went from cooling/heating to off at clock t0, the clock is
\* at least t0 + 60000 ms.
C2_Dwell ==
  (pc = "loop" /\ ultimoModo # 0 /\ desligadoEm # -1)
    => now - desligadoEm >= tempoSeguranca

\* cooling again exactly 60000 ms after going off
C2_Witness ==
  /\ pc = "loop" /\ ultimoModo = 1 /\ desligadoEm # -1
  /\ now - desligadoEm = tempoSeguranca

\* C4 (sensor-unavailable fail-safe): a loop() that is not locked and in which
\* either sensor reading is NaN ends with all relays de-energized and
\* sistemaAtivo false, and leaves the setpoints, the pending-sync flag and the
\* target registers 2 and 3 as they were.
C4_SensorFailSafe ==
  [][ (~ev'.locked /\ (isnan(in'.temp) \/ isnan(in'.hum)))
        => /\ ~releA' /\ ~releB' /\ ~releU' /\ ~sistemaAtivo'
           /\ setpointTemp' = setpointTemp /\ setpointHum' = setpointHum
           /\ modoSincronia' = modoSincronia
           /\ tab_reg'[2] = tab_reg[2] /\ tab_reg'[3] = tab_reg[3] ]_vars

\* C5 (soft pick-up), as the code has it: in a loop() that is not locked and
\* that starts with modoSincronia set or finds in register 2 or 3 a target the
\* master wrote,
\* modoSincronia is cleared exactly when the potentiometer reading differs by
\* more than 15 counts from the last recorded reading and its mapped value is
\* less than 2.0 from the selected channel's setpoint; the setpoints change in
\* such a loop() only to a value the master wrote.
C5_SoftPickup ==
  [][ LET regTemp == IF in'.req.slot = 2 THEN in'.req.val ELSE tab_reg[2]
          regHum  == IF in'.req.slot = 3 THEN in'.req.val ELSE tab_reg[3]
          escritaTemp == DiffAbove01(regTemp, setpointTemp)
          escritaHum  == DiffAbove01(regHum, setpointHum)
          alvo    == IF in'.chave = HIGH THEN setpointTemp' ELSE setpointHum'
          mapeado == IF in'.chave = HIGH THEN (in'.pot * 70) \div 1023
                     ELSE (in'.pot * 100) \div 1023
          moveu   == \/ in'.pot - ultimaLeituraPot > 15
                     \/ ultimaLeituraPot - in'.pot > 15
          perto   == 10 * mapeado - alvo < 20 /\ alvo - 10 * mapeado < 20
      IN  (~ev'.locked /\ (modoSincronia \/ escritaTemp \/ escritaHum)) =>
            /\ ~modoSincronia' <=> (moveu /\ perto)
            /\ setpointTemp' = IF escritaTemp THEN regTemp ELSE setpointTemp
            /\ setpointHum' = IF escritaHum THEN regHum ELSE setpointHum ]_vars

\* the potentiometer turned onto the temperature target the master wrote
C5_Witness ==
  /\ pc = "loop" /\ ev.pegou /\ ~modoSincronia /\ in.chave = HIGH
  /\ setpointTemp = 300 /\ tab_reg[2] = 300 /\ in.pot = 425

\* C5 as stated: modoSincronia is cleared exactly in the first loop() whose
\* mapped potentiometer value is less than 2.0 from the setpoint, whether the
\* potentiometer moved or not.
C5_SoftPickupAsStated ==
  [][ LET regTemp == IF in'.req.slot = 2 THEN in'.req.val ELSE tab_reg[2]
          regHum  == IF in'.req.slot = 3 THEN in'.req.val ELSE tab_reg[3]
          escritaTemp == DiffAbove01(regTemp, setpointTemp)
          escritaHum  == DiffAbove01(regHum, setpointHum)
          alvo    == IF in'.chave = HIGH THEN setpointTemp' ELSE setpointHum'
          mapeado == IF in'.chave = HIGH THEN (in'.pot * 70) \div 1023
                     ELSE (in'.pot * 100) \div 1023
          moveu   == \/ in'.pot - ultimaLeituraPot > 15
                     \/ ultimaLeituraPot - in'.pot > 15
          perto   == 10 * mapeado - alvo < 20 /\ alvo - 10 * mapeado < 20
      IN  (~ev'.locked /\ (modoSincronia \/ escritaTemp \/ escritaHum)) =>
            /\ ~modoSincronia' <=> (perto)
            /\ setpointTemp' = IF escritaTemp THEN regTemp ELSE setpointTemp
            /\ setpointHum' = IF escritaHum THEN regHum ELSE setpointHum ]_vars

\* C6 (debounce): sistemaAtivo is flipped by the start button only on a falling
\* edge whose loop() has millis() - lastDebounceTime > 200 ms, two flips are
\* more than 200 ms apart, and lastDebounceTime changes only in a loop() that
\* flips, to that loop()'s clock.
C6_Debounce ==
  [][ /\ ev'.toggled =>
            /\ ev'.borda
            /\ SubUL(now', lastDebounceTime) > debounceDelay
            /\ (aceitoEm # -1 => now' - aceitoEm > debounceDelay)
            /\ lastDebounceTime' = now'
      /\ (lastDebounceTime' # lastDebounceTime) => ev'.toggled ]_vars

\* a falling edge less than 200 ms after the last accepted one, not accepted
C6_Witness ==
  /\ pc = "loop" /\ ev.borda /\ ~ev.toggled
  /\ aceitoEm # -1 /\ now - aceitoEm < debounceDelay /\ now - aceitoEm > 0

\* C7 (command self-clear): when register 5 is non-zero at the end of a loop()
\* and the master does not write it in the next one, it reads 0 at the end of
\* the next one.
C7_CommandSelfClear ==
  [][ (tab_reg[5] # 0 /\ in'.req.slot # 5) => tab_reg'[5] = 0 ]_vars

\* C8 (status projection): at the end of every loop() register 4 is 4 if the
\* loop() was locked, else 0 if sistemaAtivo is false, else 3 if the mode is
\* off, else the mode (1 cooling, 2 heating).
C8_StatusProjection ==
  pc = "loop" =>
    tab_reg[4] = (IF in.emerg = LOW \/ emergenciaVirtual THEN 4
                  ELSE IF ~sistemaAtivo THEN 0
                  ELSE IF ultimoModo = 0 THEN 3 ELSE ultimoModo)

\* C9 (humidity readback): at the end of every loop() register 6 is 1 if the
\* humidity relay is energized and 0 otherwise.
C9_HumidityReadback ==
  pc = "loop" => tab_reg[6] = (IF releU THEN 1 ELSE 0)

\* C10 (remote run gating): in a loop() that consumes a run command, the
\* command sets sistemaAtivo only if the physical emergency input is not
\* asserted and the virtual flag is clear; with the physical input asserted and
\* the virtual flag clear the loop() ends with sistemaAtivo false and register
\* 4 at 4.
C10_RemoteRunGating ==
  (pc = "loop" /\ in.req = Cmd(1)) =>
    /\ ev.ligou => (in.emerg = HIGH /\ ~emergenciaVirtual)
    /\ (in.emerg = LOW /\ ~emergenciaVirtual) => (~sistemaAtivo /\ tab_reg[4] = 4)

\* a run command that met the asserted switch, the virtual flag clear
C10_Witness ==
  /\ pc = "loop" /\ in.req = Cmd(1) /\ in.emerg = LOW /\ ~emergenciaVirtual
  /\ ~ev.ligou /\ ~sistemaAtivo /\ tab_reg[4] = 4

\* C11 (remote stop), as the code has it: a loop() that consumes a stop command
\* ends with sistemaAtivo false and all three relays de-energized unless it is
\* not locked and accepts a press of the start button, which comes after the
\* command and sets sistemaAtivo again.
C11_RemoteStop ==
  (pc = "loop" /\ in.req = Cmd(2)) =>
    IF ev.toggled THEN sistemaAtivo
    ELSE ~sistemaAtivo /\ ~releA /\ ~releB /\ ~releU

\* a stop command that took the running actuator off, the button pressed in
\* the same loop() within the debounce window
C11_Witness ==
  /\ pc = "loop" /\ in.req = Cmd(2) /\ ev.borda /\ ~ev.toggled /\ ev.desligou
  /\ ~sistemaAtivo /\ ~releA /\ ~releB /\ ~releU

\* C11 as stated: a loop() that consumes a stop command ends with sistemaAtivo
\* false and all three relays de-energized, whatever the start button does.
C11_RemoteStopAsStated ==
  (pc = "loop" /\ in.req = Cmd(2)) =>
    (~sistemaAtivo /\ ~releA /\ ~releB /\ ~releU)

\* C12 (sticky virtual emergency): emergenciaVirtual is set by a loop() that
\* consumes command 3, cleared by one that consumes command 4 and left as it is
\* by every other loop(), whatever the emergency switch reads; a loop() that
\* starts with it set and does not consume command 4 is locked.
C12_StickyVirtual ==
  [][ /\ emergenciaVirtual' = (IF in'.req = Cmd(3) THEN TRUE
                               ELSE IF in'.req = Cmd(4) THEN FALSE
                               ELSE emergenciaVirtual)
      /\ (emergenciaVirtual /\ in'.req # Cmd(4)) => ev'.locked ]_vars

\* a run command with the switch released, still locked by the flag set earlier
C12_Witness ==
  /\ pc = "loop" /\ emergenciaVirtual /\ in.emerg = HIGH /\ in.req = Cmd(1)
  /\ ev.locked /\ ~sistemaAtivo

\* C13 (remote precedence), as the code has it: in a loop() that is not locked
\* and finds register 2 (resp. 3) more than 0.1 from the temperature (resp.
\* humidity) setpoint, that setpoint and the register end at the register's
\* value, potentiometer moved or not; modoSincronia ends set unless in the same
\* loop() the potentiometer moved by more than 15 counts onto a mapped value
\* less than 2.0 from the selected channel's setpoint, which clears it.
C13_RemotePrecedence ==
  [][ LET regTemp == IF in'.req.slot = 2 THEN in'.req.val ELSE tab_reg[2]
          regHum  == IF in'.req.slot = 3 THEN in'.req.val ELSE tab_reg[3]
          difTemp == regTemp - setpointTemp > 1 \/ setpointTemp - regTemp > 1
          difHum  == regHum - setpointHum > 1 \/ setpointHum - regHum > 1
          alvo    == IF in'.chave = HIGH THEN setpointTemp' ELSE setpointHum'
          mapeado == IF in'.chave = HIGH THEN (in'.pot * 70) \div 1023
                     ELSE (in'.pot * 100) \div 1023
          moveu   == \/ in'.pot - ultimaLeituraPot > 15
                     \/ ultimaLeituraPot - in'.pot > 15
          perto   == 10 * mapeado - alvo < 20 /\ alvo - 10 * mapeado < 20
      IN  ~ev'.locked =>
            /\ difTemp => (setpointTemp' = regTemp /\ tab_reg'[2] = regTemp)
            /\ difHum => (setpointHum' = regHum /\ tab_reg'[3] = regHum)
            /\ (difTemp \/ difHum) => (modoSincronia' <=> ~(moveu /\ perto)) ]_vars

\* the master's temperature target taken while the potentiometer moved, away
\* from the target
C13_Witness ==
  /\ pc = "loop" /\ in.req = Write(2, 300) /\ ev.moveu /\ ~ev.pegou
  /\ in.chave = HIGH /\ setpointTemp = 300 /\ tab_reg[2] = 300 /\ modoSincronia

\* C13 as stated: such a loop() always ends with modoSincronia set.
C13_RemotePrecedenceAsStated ==
  [][ LET regTemp == IF in'.req.slot = 2 THEN in'.req.val ELSE tab_reg[2]
          regHum  == IF in'.req.slot = 3 THEN in'.req.val ELSE tab_reg[3]
          difTemp == regTemp - setpointTemp > 1 \/ setpointTemp - regTemp > 1
          difHum  == regHum - setpointHum > 1 \/ setpointHum - regHum > 1
          alvo    == IF in'.chave = HIGH THEN setpointTemp' ELSE setpointHum'
          mapeado == IF in'.chave = HIGH THEN (in'.pot * 70) \div 1023
                     ELSE (in'.pot * 100) \div 1023
          moveu   == \/ in'.pot - ultimaLeituraPot > 15
                     \/ ultimaLeituraPot - in'.pot > 15
          perto   == 10 * mapeado - alvo < 20 /\ alvo - 10 * mapeado < 20
      IN  ~ev'.locked =>
            /\ difTemp => (setpointTemp' = regTemp /\ tab_reg'[2] = regTemp)
            /\ difHum => (setpointHum' = regHum /\ tab_reg'[3] = regHum)
            /\ (difTemp \/ difHum) => modoSincronia' ]_vars

\* C14 (per-channel authority): in a loop() that is not locked, starts with no
\* synchronisation pending, keeps the selector where it was, finds the selected
\* channel's register equal to its setpoint and the other channel's register
\* written by the master, a potentiometer that moved by more than 15 counts
\* still writes its mapped value to the selected channel's setpoint.
C14_PerChannelAuthority ==
  [][ LET regTemp == IF in'.req.slot = 2 THEN in'.req.val ELSE tab_reg[2]
          regHum  == IF in'.req.slot = 3 THEN in'.req.val ELSE tab_reg[3]
          difTemp == regTemp - setpointTemp > 1 \/ setpointTemp - regTemp > 1
          difHum  == regHum - setpointHum > 1 \/ setpointHum - regHum > 1
          moveu   == \/ in'.pot - ultimaLeituraPot > 15
                     \/ ultimaLeituraPot - in'.pot > 15
      IN  (~ev'.locked /\ ~modoSincronia /\ in'.chave = ultimoEstadoChave /\ moveu) =>
            /\ (in'.chave = HIGH /\ regTemp = setpointTemp /\ difHum)
                  => setpointTemp' = 10 * ((in'.pot * 70) \div 1023)
            /\ (in'.chave = LOW /\ regHum = setpointHum /\ difTemp)
                  => setpointHum' = 10 * ((in'.pot * 100) \div 1023) ]_vars

\* C15 (local write with mirror): in a loop() that is not locked, starts with
\* modoSincronia clear, keeps the selector where it was, finds neither register
\* 2 nor 3 more than 0.1 from its setpoint and reads the potentiometer more
\* than 15 counts from the last recorded reading, the selected channel's
\* setpoint becomes the reading mapped to 0..70 (temperature) or 0..100
\* (humidity) and that channel's register ends at ten times the new setpoint.
C15_LocalWriteMirror ==
  [][ LET regTemp == IF in'.req.slot = 2 THEN in'.req.val ELSE tab_reg[2]
          regHum  == IF in'.req.slot = 3 THEN in'.req.val ELSE tab_reg[3]
          m70     == (in'.pot * 70) \div 1023
          m100    == (in'.pot * 100) \div 1023
          moveu   == \/ in'.pot - ultimaLeituraPot > 15
                     \/ ultimaLeituraPot - in'.pot > 15
      IN  (/\ ~ev'.locked /\ ~modoSincronia /\ in'.chave = ultimoEstadoChave
           /\ ~DiffAbove01(regTemp, setpointTemp)
           /\ ~DiffAbove01(regHum, setpointHum) /\ moveu) =>
            IF in'.chave = HIGH
            THEN m70 \in 0..70 /\ setpointTemp' = 10 * m70 /\ tab_reg'[2] = 10 * m70
            ELSE m100 \in 0..100 /\ setpointHum' = 10 * m100
                 /\ tab_reg'[3] = 10 * m100 ]_vars

\* the potentiometer turned to 440 with nothing pending: 30.0 written to the
\* temperature setpoint and 300 to register 2
C15_Witness ==
  /\ pc = "loop" /\ ev.moveu /\ ~ev.pegou /\ ~modoSincronia /\ in.req = NoReq
  /\ in.chave = HIGH /\ in.pot = 440 /\ setpointTemp = 300 /\ tab_reg[2] = 300

\* C16 (selector change forces re-synchronisation): in a loop() that is not
\* locked and reads the selector at a level other than the recorded one, the
\* level is recorded, no setpoint is written from the potentiometer (a setpoint
\* changes only to a register value taken as a remote delta), and
\* modoSincronia ends set unless the potentiometer moved by more than 15 counts
\* onto a mapped value less than 2.0 from the newly selected channel's
\* setpoint.
C16_SelectorResync ==
  [][ LET regTemp == IF in'.req.slot = 2 THEN in'.req.val ELSE tab_reg[2]
          regHum  == IF in'.req.slot = 3 THEN in'.req.val ELSE tab_reg[3]
          alvo    == IF in'.chave = HIGH THEN setpointTemp' ELSE setpointHum'
          mapeado == IF in'.chave = HIGH THEN (in'.pot * 70) \div 1023
                     ELSE (in'.pot * 100) \div 1023
          moveu   == \/ in'.pot - ultimaLeituraPot > 15
                     \/ ultimaLeituraPot - in'.pot > 15
          perto   == 10 * mapeado - alvo < 20 /\ alvo - 10 * mapeado < 20
      IN  (~ev'.locked /\ in'.chave # ultimoEstadoChave) =>
            /\ ultimoEstadoChave' = in'.chave
            /\ setpointTemp' = IF DiffAbove01(regTemp, setpointTemp)
                                THEN regTemp ELSE setpointTemp
            /\ setpointHum' = IF DiffAbove01(regHum, setpointHum)
                               THEN regHum ELSE setpointHum
            /\ modoSincronia' <=> ~(moveu /\ perto) ]_vars

\* the selector switched to humidity while the potentiometer was turned, away
\* from the humidity setpoint: nothing written, synchronisation pending
C16_Witness ==
  /\ pc = "loop" /\ ev.mudou /\ ev.moveu /\ ~ev.pegou /\ in.chave = LOW
  /\ in.req = NoReq /\ modoSincronia /\ setpointHum = 600 /\ setpointTemp = 250

\* C17 (humidity actuation): at the end of every loop() that is not locked and
\* leaves sistemaAtivo true, the humidity relay is energized if the measured
\* humidity is above setpoint - 3.0 and de-energized otherwise; it never keeps
\* its previous state.
C17_HumidityActuation ==
  (pc = "loop" /\ ~ev.locked /\ sistemaAtivo) =>
    (releU <=> in.hum > setpointHum - histereseHum)

\* 59.0 % against a setpoint of 60.0: between setpoint - 3.0 and the setpoint,
\* relay energized
C17_Witness ==
  /\ pc = "loop" /\ ~ev.locked /\ sistemaAtivo /\ in.hum = 590
  /\ setpointHum = 600 /\ releU

\* C18 (inactive means off): at the end of every loop() that leaves
\* sistemaAtivo false the mode is off and the two Peltier relays and the
\* humidity relay are de-energized.
C18_InactiveMeansOff ==
  (pc = "loop" /\ ~sistemaAtivo) =>
    (ultimoModo = 0 /\ ~releA /\ ~releB /\ ~releU)

\* the start button switching the running system off in a loop() that is not
\* locked
C18_Witness ==
  /\ pc = "loop" /\ ~ev.locked /\ ev.toggled /\ ev.desligou /\ ~sistemaAtivo
  /\ ultimoModo = 0 /\ ~releA /\ ~releB /\ ~releU

\* C19 (no sticky physical latch): a loop() is locked exactly when the
\* emergency switch reads LOW in it or emergenciaVirtual is set after its
\* command; the first loop() not locked after a locked one starts with
\* sistemaAtivo false, reads the start button, and ends with sistemaAtivo true
\* only through a run command or an accepted press in that loop().
C19_NoStickyLatch ==
  [][ /\ ev'.locked <=> (in'.emerg = LOW \/ emergenciaVirtual')
      /\ ~ev'.locked => ultimoEstadoBtnStart' = in'.btn
      /\ (pc = "loop" /\ ev.locked /\ ~ev'.locked) =>
            /\ ~sistemaAtivo
            /\ sistemaAtivo' <=> ((in'.req = Cmd(1)) # ev'.toggled) ]_vars

\* the switch just released, the flag clear: the button is read (pressed,
\* inside the debounce window) and the system stays off
C19_Witness ==
  /\ pc = "loop" /\ ev.destravou /\ in.emerg = HIGH /\ ~emergenciaVirtual
  /\ in.btn = LOW /\ ultimoEstadoBtnStart = LOW /\ ~ev.toggled /\ ~sistemaAtivo

\* C20 (thermal decision): at the end of every loop() that is not locked and
\* leaves sistemaAtivo true, the mode is the desired one (cooling above
\* setpoint + 1.0, heating below setpoint - 1.0, off otherwise) unless the
\* desired one is cooling or heating and fewer than 60000 ms have passed since
\* ultimoTempoDesligado.
C20_ThermalDecision ==
  LET desejada == IF in.temp > setpointTemp + histereseTemp THEN 1
                  ELSE IF in.temp < setpointTemp - histereseTemp THEN 2
                  ELSE 0
  IN  (pc = "loop" /\ ~ev.locked /\ sistemaAtivo) =>
        \/ ultimoModo = desejada
        \/ desejada # 0 /\ SubUL(now, ultimoTempoDesligado) < tempoSeguranca

\* 27.5 against 25.0 with the dwell served after an earlier stop: cooling
C20_Witness ==
  /\ pc = "loop" /\ ~ev.locked /\ sistemaAtivo /\ in.temp = 275
  /\ setpointTemp = 250 /\ desligadoEm # -1 /\ ultimoModo = 1 /\ releB /\ ~releA

\* C21 (dwell-blocked request changes nothing): a loop() that is not locked,
\* leaves sistemaAtivo true, wants cooling or heating, starts in another mode
\* and with fewer than 60000 ms since ultimoTempoDesligado leaves the mode, the
\* two Peltier relays and ultimoTempoDesligado as they were.
C21_DwellBlockedFrame ==
  [][ LET desejada == IF in'.temp > setpointTemp' + histereseTemp THEN 1
                      ELSE IF in'.temp < setpointTemp' - histereseTemp THEN 2
                      ELSE 0
      IN  (/\ ~ev'.locked /\ sistemaAtivo' /\ desejada # 0
           /\ desejada # ultimoModo
           /\ SubUL(now', ultimoTempoDesligado) < tempoSeguranca) =>
            /\ ultimoModo' = ultimoModo
            /\ pinA' = pinA /\ pinB' = pinB
            /\ ultimoTempoDesligado' = ultimoTempoDesligado ]_vars

\* cooling wanted 59992 ms after the mode went off: still off
C21_Witness ==
  /\ pc = "loop" /\ ~ev.locked /\ sistemaAtivo /\ in.temp = 275
  /\ setpointTemp = 250 /\ desligadoEm # -1
  /\ now - desligadoEm = tempoSeguranca - 1
  /\ ultimoModo = 0 /\ ~releA /\ ~releB

\* C22 (dwell bookkeeping): a loop() that starts with the mode off leaves
\* ultimoTempoDesligado as it was, whatever force-off it executes; one that
\* takes the mode from cooling or heating to off sets it to that loop()'s
\* clock; one that starts and ends in cooling or heating leaves it as it was.
C22_DwellBookkeeping ==
  [][ /\ ultimoModo = 0 => ultimoTempoDesligado' = ultimoTempoDesligado
      /\ (ultimoModo # 0 /\ ultimoModo' = 0) => ultimoTempoDesligado' = now'
      /\ (ultimoModo # 0 /\ ultimoModo' # 0)
           => ultimoTempoDesligado' = ultimoTempoDesligado ]_vars

\* a stop command 60 s after the mode went off: ultimoTempoDesligado still
\* holds the clock of that change
C22_Witness ==
  /\ pc = "loop" /\ in.req = Cmd(2) /\ ultimoModo = 0 /\ ~ev.desligou
  /\ desligadoEm # -1 /\ ultimoTempoDesligado = desligadoEm /\ now > desligadoEm

\* C23 (deferred actuation is eventually performed): if from some loop() on
\* every loop() is not locked, leaves sistemaAtivo true and wants cooling
\* (resp. heating) while the clock advances, then from some loop() on the mode
\* is cooling (resp. heating).
C23_DeferredActuation ==
  /\ <>[](pc = "loop" /\ ~ev.locked /\ sistemaAtivo
             /\ in.temp > setpointTemp + histereseTemp) => <>[](ultimoModo = 1)
  /\ <>[](pc = "loop" /\ ~ev.locked /\ sistemaAtivo
             /\ in.temp < setpointTemp - histereseTemp) => <>[](ultimoModo = 2)

\* cooling started in the loop() after one that had to leave it undone, a
\* full dwell after the mode went off
C23_Witness ==
  /\ pc = "loop" /\ ev.cumpriu /\ ultimoModo = 1 /\ releB /\ in.temp = 275
  /\ desligadoEm # -1 /\ now - desligadoEm >= tempoSeguranca

\* C24 (no jump on pick-up or while pending): in every loop() that is not
\* locked and has modoSincronia set when the potentiometer is evaluated
\* (it stays set, or this loop() clears it), each setpoint ends as the register
\* target if that differs from it by more than 0.1 and unchanged otherwise;
\* the potentiometer value is never written to it.
C24_NoJump ==
  [][ LET regTemp == IF in'.req.slot = 2 THEN in'.req.val ELSE tab_reg[2]
          regHum  == IF in'.req.slot = 3 THEN in'.req.val ELSE tab_reg[3]
      IN  (~ev'.locked /\ (modoSincronia' \/ ev'.pegou)) =>
            /\ setpointTemp' = IF DiffAbove01(regTemp, setpointTemp)
                               THEN regTemp ELSE setpointTemp
            /\ setpointHum' = IF DiffAbove01(regHum, setpointHum)
                              THEN regHum ELSE setpointHum ]_vars

\* the potentiometer, on the humidity channel, turned to 40 % with the
\* humidity target at 41.0 %: modoSincronia is cleared and the target stays
C24_Witness ==
  /\ pc = "loop" /\ ev.pegou /\ ev.moveu /\ ~modoSincronia /\ in.chave = LOW
  /\ in.pot = 412 /\ setpointHum = 410 /\ tab_reg[3] = 410

\* C25 (authority transitions are closed): modoSincronia is false after
\* setup(); a loop() sets it only if it is not locked and finds a register
\* target more than 0.1 from its setpoint or the selector changed, and clears
\* it only if it is not locked, the potentiometer moved more than 15 counts and
\* its mapped value is less than 2.0 from the selected channel's setpoint.
C25_AuthorityClosed ==
  /\ ~modoSincronia
  /\ [][ LET regTemp == IF in'.req.slot = 2 THEN in'.req.val ELSE tab_reg[2]
             regHum  == IF in'.req.slot = 3 THEN in'.req.val ELSE tab_reg[3]
             alvo    == IF in'.chave = HIGH THEN setpointTemp' ELSE setpointHum'
             mapeado == IF in'.chave = HIGH THEN (in'.pot * 70) \div 1023
                        ELSE (in'.pot * 100) \div 1023
             moveu   == \/ in'.pot - ultimaLeituraPot > 15
                        \/ ultimaLeituraPot - in'.pot > 15
             perto   == 10 * mapeado - alvo < 20 /\ alvo - 10 * mapeado < 20
         IN  /\ (~modoSincronia /\ modoSincronia') =>
                   /\ ~ev'.locked
                   /\ \/ DiffAbove01(regTemp, setpointTemp)
                      \/ DiffAbove01(regHum, setpointHum)
                      \/ in'.chave # ultimoEstadoChave
             /\ (modoSincronia /\ ~modoSincronia') =>
                   ~ev'.locked /\ moveu /\ perto ]_vars

\* a locked loop() with a turned potentiometer that left modoSincronia set
C25_Witness ==
  /\ pc = "loop" /\ ev.locked /\ modoSincronia /\ in.pot # ultimaLeituraPot
  /\ in.chave = ultimoEstadoChave /\ tab_reg[2] = ToReg(setpointTemp)
  /\ tab_reg[3] = ToReg(setpointHum)

\* C26 (re-assertion of targets): at the end of every loop() that is not
\* locked and reads the potentiometer within 15 counts of the last recorded
\* reading, register 2 is the temperature setpoint x10 and register 3 the
\* humidity setpoint x10.
C26_Reassertion ==
  [][ LET moveu == \/ in'.pot - ultimaLeituraPot > 15
                   \/ ultimaLeituraPot - in'.pot > 15
      IN  (~ev'.locked /\ ~moveu) =>
            tab_reg'[2] = setpointTemp' /\ tab_reg'[3] = setpointHum' ]_vars

\* the master wrote 25.3 over a setpoint of 25.2: the write is not taken and
\* the register is back at 252
C26_Witness ==
  /\ pc = "loop" /\ ~ev.locked /\ ~ev.moveu /\ in.req = Write(2, 253)
  /\ setpointTemp = 252 /\ tab_reg[2] = 252 /\ tab_reg[3] = setpointHum

\* C27 (a locked loop() is short-circuited): a locked loop() leaves the two
\* setpoints, modoSincronia, ultimaLeituraPot, ultimoEstadoChave,
\* ultimoEstadoBtnStart and lastDebounceTime unchanged, and leaves registers
\* 2 and 3 as the Modbus exchange of that loop() handed them over (unchanged
\* unless the master wrote one).
C27_LockedFrame ==
  [][ LET regTemp == IF in'.req.slot = 2 THEN in'.req.val ELSE tab_reg[2]
          regHum  == IF in'.req.slot = 3 THEN in'.req.val ELSE tab_reg[3]
      IN  ev'.locked =>
            /\ setpointTemp' = setpointTemp /\ setpointHum' = setpointHum
            /\ modoSincronia' = modoSincronia
            /\ ultimaLeituraPot' = ultimaLeituraPot
            /\ ultimoEstadoChave' = ultimoEstadoChave
            /\ ultimoEstadoBtnStart' = ultimoEstadoBtnStart
            /\ lastDebounceTime' = lastDebounceTime
            /\ tab_reg'[2] = regTemp /\ tab_reg'[3] = regHum ]_vars

\* a locked loop() with the button pressed, the selector and the
\* potentiometer moved and a target of 30.0 written by the master
C27_Witness ==
  /\ pc = "loop" /\ ev.locked /\ in.btn = LOW /\ ultimoEstadoBtnStart = HIGH
  /\ in.chave # ultimoEstadoChave /\ in.pot # ultimaLeituraPot
  /\ in.req = Write(2, 300) /\ tab_reg[2] = 300 /\ setpointTemp = 250

\* C28 (start-button toggle): in a loop() that is not locked, reads the button
\* low after recording it high, more than 200 ms after lastDebounceTime,
\* sistemaAtivo ends as the opposite of what the command switch left,
\* lastDebounceTime is the clock of the loop(), and if sistemaAtivo ends false
\* the mode is 0 and the three relays are off; emergenciaVirtual is what the
\* command switch left.
C28_StartToggle ==
  [][ LET cmd == IF in'.req.slot = 5 THEN in'.req.val ELSE tab_reg[5]
          ativoCmd == IF cmd = 1 THEN TRUE
                      ELSE IF cmd = 2 THEN FALSE ELSE sistemaAtivo
          virtualCmd == IF cmd = 3 THEN TRUE
                        ELSE IF cmd = 4 THEN FALSE ELSE emergenciaVirtual
      IN  (/\ ~ev'.locked /\ in'.btn = LOW /\ ultimoEstadoBtnStart = HIGH
           /\ SubUL(now', lastDebounceTime) > debounceDelay) =>
            /\ ev'.toggled
            /\ sistemaAtivo' = ~ativoCmd
            /\ lastDebounceTime' = now'
            /\ emergenciaVirtual' = virtualCmd
            /\ ~sistemaAtivo' =>
                 ultimoModo' = 0 /\ ~releA' /\ ~releB' /\ ~releU' ]_vars

\* the button switched a cooling controller off
C28_Witness ==
  /\ pc = "loop" /\ ev.toggled /\ ev.desligou /\ ~sistemaAtivo
  /\ in.req = NoReq /\ lastDebounceTime = now /\ aceitoEm = now
  /\ ultimoModo = 0 /\ ultimoTempoDesligado = now

\* C29 (unknown commands are no-ops): a loop() that finds in register 5 a
\* value other than 1, 2, 3 or 4 leaves sistemaAtivo, emergenciaVirtual, the
\* mode and the three relays as the same loop() leaves them from the same
\* state with register 5 = 0.
C29_UnknownCommand ==
  [][ LET cmd == IF in'.req.slot = 5 THEN in'.req.val ELSE tab_reg[5]
          i   == in'
          tempAtual == lerSensor(i.temp)
          humAtual  == lerSensor(i.hum)
      IN  cmd \notin {1, 2, 3, 4} =>
            \A z1 \in {publicar([Ctl EXCEPT !.tab_reg[5] = 0],
                                tempAtual, humAtual, i.emerg)} :
            \A z2 \in {modbusLoop(z1, IF i.req.slot = 5 THEN Cmd(0) ELSE i.req)} :
            \A z3 \in {processarComando(z2, i.emerg, now')} :
            \A z4 \in {botaoStart(z3, i.btn, now')} :
            \A z5 \in {mudancaScada(z4)} :
            \A z6 \in {mudancaChave(z5, i.chave)} :
            \A z7 \in {mudancaPot(z6, i.chave, i.pot)} :
            \A zf \in {IF emEmergencia(z3, i.emerg) THEN travar(z3, now')
                        ELSE IF isnan(tempAtual) \/ isnan(humAtual)
                          THEN pararTudo(z4, now')
                        ELSE atuar(z7, tempAtual, humAtual, now')} :
              /\ sistemaAtivo' = zf.sistemaAtivo
              /\ emergenciaVirtual' = zf.emergenciaVirtual
              /\ ultimoModo' = zf.ultimoModo
              /\ pinA' = zf.pinA /\ pinB' = zf.pinB /\ pinU' = zf.pinU ]_vars

\* the master wrote 7 to register 5 of a cooling controller, which goes on
\* cooling
C29_Witness ==
  /\ pc = "loop" /\ in.req = Cmd(7) /\ tab_reg[5] = 7 /\ ~ev.locked
  /\ sistemaAtivo /\ ultimoModo = 1 /\ releB /\ ~releA /\ releU

\* C30 (no direct polarity reversal): no loop() changes the mode from cooling
\* to heating or from heating to cooling; every such change passes through
\* mode 0.
C30_NoDirectReversal ==
  [][ /\ ~(ultimoModo = 1 /\ ultimoModo' = 2)
      /\ ~(ultimoModo = 2 /\ ultimoModo' = 1) ]_vars

\* C31 (no double-energize between relay writes): after no single relay
\* write inside a loop() are relay A and relay B both energized.
C31_NoDoubleEnergizeBetweenWrites == ~ev.ambos

\* C32 (mode and relays agree): after setup() and at the end of every loop(),
\* the mode is 0 exactly when both Peltier relays are off, 1 exactly when
\* relay B is energized and relay A is not, and 2 exactly when relay A is
\* energized and relay B is not.
C32_ModeRelaysAgree ==
  /\ ultimoModo = 0 <=> (~releA /\ ~releB)
  /\ ultimoModo = 1 <=> (releB /\ ~releA)
  /\ ultimoModo = 2 <=> (releA /\ ~releB)

\* a cooling controller stopped by the master: mode 0 and both relays off
C32_Witness ==
  /\ pc = "loop" /\ in.req = Cmd(2) /\ ev.desligou /\ ~ev.locked
  /\ ultimoModo = 0 /\ ~releA /\ ~releB /\ ultimoTempoDesligado = now

\* C33 (running implies dwell served), as the code has it: at the end of
\* every loop() with the mode at 1 or 2 and the clock below 2^32 - 60000, the
\* clock is at least 60000 ms past ultimoTempoDesligado, the difference taken
\* modulo 2^32.
C33_RunningImpliesDwell ==
  (ultimoModo # 0 /\ now < ULongMod - tempoSeguranca) =>
     SubUL(now, ultimoTempoDesligado) >= tempoSeguranca

\* cooling that started exactly 60000 ms after the mode went off
C33_Witness ==
  /\ pc = "loop" /\ ultimoModo = 1 /\ releB /\ desligadoEm # -1
  /\ ultimoTempoDesligado = desligadoEm /\ now - desligadoEm = tempoSeguranca

\* C33 as stated: the same at every clock value of a run in which the clock
\* does not wrap.
C33_RunningImpliesDwellAsStated ==
  ultimoModo # 0 => SubUL(now, ultimoTempoDesligado) >= tempoSeguranca

C35_PressWhileLocked ==
  [][ /\ (/\ ev.locked /\ ~ev'.locked /\ in.btn = LOW /\ in'.btn = LOW
          /\ in'.req # Cmd(1)) => ~sistemaAtivo'
      /\ ev'.toggled => (~ev'.locked /\ in.btn = HIGH /\ in'.btn = LOW) ]_vars

\* C36 (sub-threshold remote writes are discarded): in a loop() that is not
\* locked, finds the selector and the potentiometer where they were, and
\* finds one register target one count (0.1) from its setpoint and the other
\* at most one count from its own, both setpoints and modoSincronia are
\* unchanged and registers 2 and 3 end as the setpoints x10.
C36_SubThreshold ==
  [][ LET regTemp == IF in'.req.slot = 2 THEN in'.req.val ELSE tab_reg[2]
          regHum  == IF in'.req.slot = 3 THEN in'.req.val ELSE tab_reg[3]
          moveu   == \/ in'.pot - ultimaLeituraPot > 15
                     \/ ultimaLeituraPot - in'.pot > 15
          dTemp   == abs(regTemp - setpointTemp)
          dHum    == abs(regHum - setpointHum)
      IN  (/\ ~ev'.locked /\ ~moveu /\ in'.chave = ultimoEstadoChave
           /\ dTemp <= 1 /\ dHum <= 1 /\ dTemp + dHum > 0) =>
            /\ setpointTemp' = setpointTemp /\ setpointHum' = setpointHum
            /\ modoSincronia' = modoSincronia
            /\ tab_reg'[2] = setpointTemp /\ tab_reg'[3] = setpointHum ]_vars

\* C37 (remote targets written while locked are not lost), as the code has
\* it: a locked loop() leaves registers 2 and 3 as the Modbus exchange handed
\* them over, and the first loop() that is not locked takes each register
\* that is more than 0.1 from its setpoint as the setpoint; modoSincronia ends
\* set unless in that same loop() the potentiometer moved by more than 15
\* counts onto a mapped value less than 2.0 from the selected channel's
\* setpoint.
C37_RemoteWhileLocked ==
  [][ LET regTemp == IF in'.req.slot = 2 THEN in'.req.val ELSE tab_reg[2]
          regHum  == IF in'.req.slot = 3 THEN in'.req.val ELSE tab_reg[3]
          alvo    == IF in'.chave = HIGH THEN setpointTemp' ELSE setpointHum'
          mapeado == IF in'.chave = HIGH THEN (in'.pot * 70) \div 1023
                     ELSE (in'.pot * 100) \div 1023
          moveu   == \/ in'.pot - ultimaLeituraPot > 15
                     \/ ultimaLeituraPot - in'.pot > 15
          perto   == 10 * mapeado - alvo < 20 /\ alvo - 10 * mapeado < 20
          difTemp == DiffAbove01(regTemp, setpointTemp)
          difHum  == DiffAbove01(regHum, setpointHum)
      IN  /\ ev'.locked => (tab_reg'[2] = regTemp /\ tab_reg'[3] = regHum)
          /\ (ev.locked /\ ~ev'.locked) =>
                /\ difTemp => setpointTemp' = regTemp
                /\ difHum => setpointHum' = regHum
                /\ (difTemp \/ difHum) => (modoSincronia' <=> ~(moveu /\ perto)) ]_vars

\* the first loop() after a lock took 30.0, which the master had written
\* while the loop() was locked
C37_Witness ==
  /\ pc = "loop" /\ ev.destravou /\ ev.tomou /\ in.req = NoReq
  /\ setpointTemp = 300 /\ tab_reg[2] = 300 /\ modoSincronia

\* C37 as stated: that first loop() always ends with modoSincronia set.
C37_RemoteWhileLockedAsStated ==
  [][ LET regTemp == IF in'.req.slot = 2 THEN in'.req.val ELSE tab_reg[2]
          regHum  == IF in'.req.slot = 3 THEN in'.req.val ELSE tab_reg[3]
          alvo    == IF in'.chave = HIGH THEN setpointTemp' ELSE setpointHum'
          mapeado == IF in'.chave = HIGH THEN (in'.pot * 70) \div 1023
                     ELSE (in'.pot * 100) \div 1023
          moveu   == \/ in'.pot - ultimaLeituraPot > 15
                     \/ ultimaLeituraPot - in'.pot > 15
          perto   == 10 * mapeado - alvo < 20 /\ alvo - 10 * mapeado < 20
          difTemp == DiffAbove01(regTemp, setpointTemp)
          difHum  == DiffAbove01(regHum, setpointHum)
      IN  /\ ev'.locked => (tab_reg'[2] = regTemp /\ tab_reg'[3] = regHum)
          /\ (ev.locked /\ ~ev'.locked) =>
                /\ difTemp => setpointTemp' = regTemp
                /\ difHum => setpointHum' = regHum
                /\ (difTemp \/ difHum) => modoSincronia' ]_vars

\* C38 (commands are consumed before the lock is evaluated): a loop() that
\* finds 3 in register 5 is locked and ends with emergenciaVirtual set,
\* sistemaAtivo false, the mode at 0 and the three relays off; a loop() that
\* finds 4 there with the emergency switch released is not locked and goes on
\* to record the button level; and a loop() that finds 1, 2, 3 or 4 there,
\* locked or not, leaves register 5 at 0.
C38_CommandsBeforeLock ==
  [][ LET cmd == IF in'.req.slot = 5 THEN in'.req.val ELSE tab_reg[5]
      IN  /\ cmd = 3 =>
                /\ ev'.locked /\ emergenciaVirtual' /\ ~sistemaAtivo'
                /\ ultimoModo' = 0 /\ ~releA' /\ ~releB' /\ ~releU'
          /\ (cmd = 4 /\ in'.emerg = HIGH) =>
                /\ ~ev'.locked /\ ~emergenciaVirtual'
                /\ ultimoEstadoBtnStart' = in'.btn
          /\ cmd \in {1, 2, 3, 4} => tab_reg'[5] = 0 ]_vars

\* the clear command arrived with the button pressed: the same loop() is
\* unlocked and the button starts the controller
C38_Witness ==
  /\ pc = "loop" /\ in.req = Cmd(4) /\ ev.destravou /\ ~ev.locked
  /\ ~emergenciaVirtual /\ tab_reg[5] = 0 /\ ev.toggled /\ sistemaAtivo

\* C39 (local writes stay in range and on the selected channel): a loop()
\* that writes a setpoint from the potentiometer (it moved, with modoSincronia
\* clear) leaves the selected setpoint at a whole number of units in 0..70
\* for temperature and 0..100 for humidity, with its register equal to it,
\* and leaves the other channel's setpoint unchanged and its register as the
\* Modbus exchange handed it over.
C39_LocalWriteRange ==
  [][ LET regTemp == IF in'.req.slot = 2 THEN in'.req.val ELSE tab_reg[2]
          regHum  == IF in'.req.slot = 3 THEN in'.req.val ELSE tab_reg[3]
      IN  (ev'.moveu /\ ~modoSincronia' /\ ~ev'.pegou) =>
            IF in'.chave = HIGH
            THEN /\ setpointTemp' \in {10 * m : m \in 0 .. 70}
                 /\ tab_reg'[2] = setpointTemp'
                 /\ setpointHum' = setpointHum /\ tab_reg'[3] = regHum
            ELSE /\ setpointHum' \in {10 * m : m \in 0 .. 100}
                 /\ tab_reg'[3] = setpointHum'
                 /\ setpointTemp' = setpointTemp /\ tab_reg'[2] = regTemp ]_vars

\* the potentiometer turned to the top of its range on the temperature
\* channel: 70.0, humidity untouched
C39_Witness ==
  /\ pc = "loop" /\ ev.moveu /\ ~modoSincronia /\ in.chave = HIGH
  /\ in.pot = 1023 /\ setpointTemp = 700 /\ tab_reg[2] = 700
  /\ setpointHum = 600 /\ tab_reg[3] = 600

====
